---- MODULE Spec2Model ----
(***************************************************************************)
(* A model of hangouts_to_sms: the conversion of a Google Hangouts         *)
(* Takeout archive into the SMS Backup & Restore document.                 *)
(*                                                                         *)
(* Python strings whose characters matter (message texts, URLs) are        *)
(* sequences of one-character strings; enumeration values and content      *)
(* types, which the code only compares, are TLA+ strings.  A raised        *)
(* exception is the record [raised |-> TRUE, error |-> <class>]; a normal  *)
(* return is [raised |-> FALSE, value |-> <result>].                       *)
(***************************************************************************)
EXTENDS Integers, Sequences, FiniteSets, TLC

VARIABLES
    archive,                \* google_hangouts_data['conversations'] (read-only input)
    message_count,          \* the --message-count argument (0 stands for None)
    pc,                     \* position of the single thread of control
    ci,                     \* index of the conversation of transform_hangouts_data's loop
    ei,                     \* index of the event of the conversation loop
    message_counter,        \* message_counter of transform_hangouts_data
    conv_counter,           \* message_counter, the by-value parameter of the conversation transform
    conversation_meta,      \* conversation_meta of the conversation in progress
    parsed_event,           \* parsed, the dict parse_hangouts_event builds
    messages,               \* what the event transform returned for parsed_event
    conversation_messages,  \* conversation_messages of the conversation in progress
    root,                   \* children of the smses root element
    root_count,             \* root.attrib['count']
    error,                  \* the exception that ended the run, if any
    cache,                  \* the cache files in the temporary directory: event id -> data
    call,                   \* the frame of the retrieve_image_data call in progress
    fetch_log,              \* per finished retrieve_image_data call: what it did (history)
    output,                 \* the content of the file at the --output path
    existing,               \* the file at the --existing path, None without the argument
    warnings,               \* the records logged at level WARNING, in order
    server,                 \* what the remote server answers per URL, None when it may answer anything
    run,                    \* the number of the run in progress
    first_output            \* the content of the output path after the first run, once it ended

vars == <<archive, message_count, pc, ci, ei, message_counter, conv_counter,
          conversation_meta, parsed_event, messages, conversation_messages,
          root, root_count, error, cache, call, fetch_log,
          output, existing, warnings, server, run, first_output>>

\* what no step of a run changes: its arguments, the server, and the runs made
MainFrame == UNCHANGED <<existing, server, run, first_output>>

-----------------------------------------------------------------------------
(* Results of calls *)

Return(v) == [raised |-> FALSE, value |-> v]

Raise(e) == [raised |-> TRUE, error |-> e]

NoValue == "NoValue"

-----------------------------------------------------------------------------
(* Strings *)

RECURSIVE Concat(_)
Concat(ss) == IF ss = <<>> THEN <<>> ELSE Head(ss) \o Concat(Tail(ss))

\* Python's  sub in s  for strings
IsSubstring(sub, s) ==
    \E i \in 0..(Len(s) - Len(sub)) : SubSeq(s, i + 1, i + Len(sub)) = sub

\* xml.sax.saxutils.escape with the additional entity for the newline: '&', '>'
\* and '<' are replaced first, then the newline; no replacement text contains
\* a character a later replacement looks for, so it acts character by character
EscapeChar(c) ==
    CASE c = "&"  -> <<"&", "a", "m", "p", ";">>
      [] c = ">"  -> <<"&", "g", "t", ";">>
      [] c = "<"  -> <<"&", "l", "t", ";">>
      [] c = "\n" -> <<"&", "#", "1", "0", ";">>
      [] OTHER    -> <<c>>

RECURSIVE xml_escape_text(_)
xml_escape_text(text) ==
    IF text = <<>> THEN <<>>
    ELSE EscapeChar(Head(text)) \o xml_escape_text(Tail(text))

-----------------------------------------------------------------------------
(* hangouts.parsed_hangouts_conversation_meta *)

\* a participant of unknown number listed under its fallback name
ParticipantStep_keep_unknown(acc, participant, user_gaia_id) ==
    LET participant_type == participant.participant_type
        gaia_id == participant.gaia_id
        Append1(phone_number) ==
            [acc EXCEPT !.participants =
                Append(@, [gaia_id |-> gaia_id, phone_number |-> phone_number])]
    IN  IF gaia_id = user_gaia_id
          THEN [acc EXCEPT !.user = <<[gaia_id |-> gaia_id,
                                       phone_number |-> participant.fallback_name]>>]
        ELSE IF participant_type = "GAIA"
          THEN IF ~participant.has_phone_number
                 THEN Append1(<<>>)
                 ELSE Append1(participant.e164)
        ELSE IF participant_type = "OFF_NETWORK_PHONE"
          THEN IF ~participant.has_phone_number
                 THEN [acc EXCEPT !.raised = "KeyError"]
                 ELSE Append1(participant.e164)
        ELSE IF participant_type \in {"UNKNOWN_PHONE_NUMBER", "MALFORMED_PHONE_NUMBER"}
          THEN Append1(participant.fallback_name)
        ELSE [acc EXCEPT !.raised = "NotImplementedError"]

\* the participant loop: acc is [user, participants, raised], user being <<>>
\* for None and <<u>> otherwise; a participant whose id is the owner's sets
\* user, one of unknown-number type is skipped
ParticipantStep(acc, participant, user_gaia_id) ==
    LET participant_type == participant.participant_type
        gaia_id == participant.gaia_id
        Append1(phone_number) ==
            [acc EXCEPT !.participants =
                Append(@, [gaia_id |-> gaia_id, phone_number |-> phone_number])]
    IN  IF gaia_id = user_gaia_id
          THEN [acc EXCEPT !.user = <<[gaia_id |-> gaia_id,
                                       phone_number |-> participant.fallback_name]>>]
        ELSE IF participant_type = "GAIA"
          THEN IF ~participant.has_phone_number
                 THEN Append1(<<>>)
                 ELSE Append1(participant.e164)
        ELSE IF participant_type = "OFF_NETWORK_PHONE"
          THEN IF ~participant.has_phone_number
                 THEN [acc EXCEPT !.raised = "KeyError"]
                 ELSE Append1(participant.e164)
        ELSE IF participant_type = "UNKNOWN_PHONE_NUMBER"
          THEN acc
        ELSE IF participant_type = "MALFORMED_PHONE_NUMBER"
          THEN Append1(participant.fallback_name)
        ELSE [acc EXCEPT !.raised = "NotImplementedError"]

RECURSIVE ParticipantLoop(_, _, _)
ParticipantLoop(acc, participant_data, user_gaia_id) ==
    IF participant_data = <<>> \/ acc.raised # NoValue THEN acc
    ELSE ParticipantLoop(ParticipantStep(acc, Head(participant_data), user_gaia_id),
                         Tail(participant_data), user_gaia_id)

parsed_hangouts_conversation_meta(conversation) ==
    LET convo == conversation.conversation
        conversation_type ==
            IF convo.type = "STICKY_ONE_TO_ONE" THEN "one_to_one"
            ELSE IF convo.type = "GROUP" THEN "group"
            ELSE NoValue
        user_gaia_id == convo.self_gaia_id
        looped == ParticipantLoop(
                      [user |-> <<>>, participants |-> <<>>, raised |-> NoValue],
                      convo.participant_data, user_gaia_id)
        participants == looped.participants
    IN  IF conversation_type = NoValue THEN Raise("ValueError")
        ELSE IF looped.raised # NoValue THEN Raise(looped.raised)
        ELSE IF looped.user = <<>> THEN Raise("ValueError")
        \* the comparison is with the raw type name, which conversation_type never holds
        ELSE IF conversation_type = "STICKY_ONE_TO_ONE" /\ Len(participants) # 1
          THEN Raise("ValueError")
        ELSE Return([conversation_type  |-> conversation_type,
                     events_count       |-> Len(conversation.events),
                     user               |-> looped.user[1],
                     participants       |-> participants,
                     participants_count |-> Len(participants)])

-----------------------------------------------------------------------------
(* sms_backup_and_restore.transform_parsed_hangouts_event_to_sms_backup_and_restore *)
(* An element is a record of its tag, the attributes that depend on the     *)
(* input, and its children; attributes the code sets to a fixed text (rr,   *)
(* sub, read, locked, ...) and the date are left out.                       *)

ContentTypes == {"text/plain", "image/jpeg", "image/png", "image/gif", "text/html"}

\* 'image' in content_type
HasImage(content_type) == content_type \in {"image/jpeg", "image/png", "image/gif"}

\* every participant addressed as a recipient
ptype_all_to(participant, sender_gaia_id) == "151"

\* the type of a participant's addr: 137 = From, 151 = To
ptype(participant, sender_gaia_id) ==
    IF participant.gaia_id = sender_gaia_id THEN "137" ELSE "151"

\* the addrs in the order opposite to the participants'
ElementAddrs_reversed(participants, sender_gaia_id) ==
    [k \in 1..Len(participants) |->
        [address |-> participants[Len(participants) + 1 - k].phone_number,
         type |-> ptype(participants[Len(participants) + 1 - k], sender_gaia_id)]]

\* element_addrs: one addr per participant of the conversation meta
RECURSIVE ElementAddrs(_, _)
ElementAddrs(participants, sender_gaia_id) ==
    IF participants = <<>> THEN <<>>
    ELSE LET participant == Head(participants)
         IN  <<[address |-> participant.phone_number,
                type |-> ptype(participant, sender_gaia_id)]>>
                 \o ElementAddrs(Tail(participants), sender_gaia_id)

\* a presentation part numbered as a content part
ElementBasePart_seq0 == [seq |-> "0", ct |-> "application/smil"]

\* element_base_part, the presentation part that comes first in every mms
ElementBasePart == [seq |-> "-1", ct |-> "application/smil"]

\* the mms of one part: [raised, value]; element_mms is the shared copy
PartMms(parsed_part, element_mms, element_addrs) ==
    LET content_type == parsed_part.content_type
    IN  IF HasImage(content_type)
          THEN Return([element_mms EXCEPT
                          !.m_type = "128",
                          !.parts = <<ElementBasePart,
                                      [seq |-> "0", ct |-> content_type,
                                       cl |-> "image", data |-> parsed_part.data]>>,
                          !.addrs = element_addrs])
        ELSE IF content_type = "text/plain"
          THEN Return([element_mms EXCEPT
                          !.m_type = "151",
                          !.parts = <<ElementBasePart,
                                      [ct |-> "text/plain", cl |-> "text",
                                       text |-> xml_escape_text(parsed_part.text)]>>,
                          !.addrs = element_addrs])
        ELSE Raise("NotImplementedError")

\* the loop over the parts: acc is [raised, value] with value the messages so far
RECURSIVE PartsLoop(_, _, _, _)
PartsLoop(acc, parts, element_mms, element_addrs) ==
    IF parts = <<>> \/ acc.raised THEN acc
    ELSE LET mms == PartMms(Head(parts), element_mms, element_addrs)
         IN  PartsLoop(IF mms.raised THEN mms
                       ELSE Return(Append(acc.value, mms.value)),
                       Tail(parts), element_mms, element_addrs)

\* is_sms without the test that there is one part only
is_sms_first_part(parts, meta) ==
    /\ parts[1].content_type = "text/plain"
    /\ meta.participants_count = 1

\* is_sms, evaluated once the parts are known not to be empty
is_sms(parts, meta) ==
    /\ Len(parts) = 1
    /\ parts[1].content_type = "text/plain"
    /\ meta.participants_count = 1

\* every message marked as received
sent_type_received(parsed_hangouts_event) == "1"

\* sent_type: '2' is Sent, '1' is Received
sent_type(parsed_hangouts_event) ==
    IF parsed_hangouts_event.sender_gaia_id = parsed_hangouts_event.user_gaia_id
      THEN "2" ELSE "1"

transform_parsed_hangouts_event_to_sms_backup_and_restore(parsed_hangouts_event, meta) ==
    LET parts == parsed_hangouts_event.parts
        sender_gaia_id == parsed_hangouts_event.sender_gaia_id
        element_mms == [tag |-> "mms", msg_box |-> sent_type(parsed_hangouts_event),
                        address |-> meta.user.phone_number,
                        m_type |-> "null", parts |-> <<>>, addrs |-> <<>>]
    IN  IF Len(parts) = 0 THEN Return(<<>>)
        ELSE IF is_sms(parts, meta)
          THEN Return(<<[tag |-> "sms",
                         address |-> meta.participants[1].phone_number,
                         type |-> sent_type(parsed_hangouts_event),
                         body |-> xml_escape_text(parts[1].text)]>>)
        ELSE PartsLoop(Return(<<>>), parts, element_mms,
                       ElementAddrs(meta.participants, sender_gaia_id))

-----------------------------------------------------------------------------
(* hangouts.generate_error_text and the pure parts of hangouts.parse_hangouts_event *)

None == <<>>

Some(v) == <<v>>

MESSAGE_ERROR_IMAGE_NOT_FOUND == <<"IMAGE NOT FOUND">>

MESSAGE_ERROR_TYPES == {MESSAGE_ERROR_IMAGE_NOT_FOUND}

MESSAGE_ERROR_DELIM == <<":", ":", " ">>

\* sep.join(*args): str.join takes exactly one argument, an iterable of strings
RECURSIVE JoinStrings(_, _)
JoinStrings(sep, strings) ==
    IF strings = <<>> THEN <<>>
    ELSE IF Len(strings) = 1 THEN Head(strings)
    ELSE Head(strings) \o sep \o JoinStrings(sep, Tail(strings))

StrJoin(sep, args) ==
    IF Len(args) # 1 THEN Raise("TypeError")
    ELSE Return(JoinStrings(sep, args[1]))

\* the code passes the three strings as three positional arguments
generate_error_text(error_type, error_msg) ==
    IF error_type \notin MESSAGE_ERROR_TYPES THEN Raise("ValueError")
    ELSE IF IsSubstring(MESSAGE_ERROR_DELIM, error_msg) THEN Raise("ValueError")
    ELSE StrJoin(MESSAGE_ERROR_DELIM, <<<<"E", "R", "R", "O", "R">>, error_type, error_msg>>)

\* a link added without the spaces around it
SegmentStep_nopad(text, segment) ==
    IF segment.type = "LINE_BREAK" THEN Return(text \o <<"\n">>)
    ELSE IF segment.type \in {"TEXT", "LINK"} THEN Return(text \o segment.text)
    ELSE Raise("ValueError")

\* a segment of unknown type skipped
SegmentStep_skip(text, segment) ==
    IF segment.type = "LINE_BREAK" THEN Return(text \o <<"\n">>)
    ELSE IF segment.type = "TEXT" THEN Return(text \o segment.text)
    ELSE IF segment.type = "LINK" THEN Return(text \o <<" ">> \o segment.text \o <<" ">>)
    ELSE Return(text)

\* the loop over the segments: acc is [raised, value] with value the text so far
SegmentStep(text, segment) ==
    IF segment.type = "LINE_BREAK" THEN Return(text \o <<"\n">>)
    ELSE IF segment.type = "TEXT" THEN Return(text \o segment.text)
    ELSE IF segment.type = "LINK" THEN Return(text \o <<" ">> \o segment.text \o <<" ">>)
    ELSE Raise("ValueError")

RECURSIVE SegmentLoop(_, _)
SegmentLoop(acc, segments) ==
    IF segments = <<>> \/ acc.raised THEN acc
    ELSE SegmentLoop(SegmentStep(acc.value, Head(segments)), Tail(segments))

\* no text part for a segment list that is empty
SegmentParts_nonempty(event) ==
    IF event.segment = None THEN Return(<<>>)
    ELSE IF event.segment[1] = <<>> THEN Return(<<>>)
    ELSE LET text == SegmentLoop(Return(<<>>), event.segment[1])
         IN  IF text.raised THEN text
             ELSE Return(<<[content_type |-> "text/plain", text |-> text.value]>>)

\* parsed['parts'] after the segments: event.segment is None for a missing key
SegmentParts(event) ==
    IF event.segment = None THEN Return(<<>>)
    ELSE LET text == SegmentLoop(Return(<<>>), event.segment[1])
         IN  IF text.raised THEN text
             ELSE Return(<<[content_type |-> "text/plain", text |-> text.value]>>)

\* an audio attachment taken whatever the type of its event
AttachmentDispatch_any_audio(event) ==
    LET attachments == event.attachment
        embed_item_type == attachments[1].type
    IN  IF Len(attachments) = 0 THEN Return("nothing")
        ELSE IF Len(attachments) > 1 THEN Raise("NotImplementedError")
        ELSE IF embed_item_type = <<"PLUS_PHOTO">> THEN Return("retrieve_image_data")
        ELSE IF embed_item_type = <<"PLACE_V2", "THING_V2", "THING">> THEN Return("nothing")
        ELSE IF embed_item_type = <<"PLUS_AUDIO_V2">> THEN Return("nothing")
        ELSE Raise("NotImplementedError")

\* the dispatch on the attachments: what the event's one attachment asks for
AttachmentDispatch(event) ==
    LET attachments == event.attachment
        embed_item_type == attachments[1].type
    IN  IF Len(attachments) = 0 THEN Return("nothing")
        ELSE IF Len(attachments) > 1 THEN Raise("NotImplementedError")
        ELSE IF embed_item_type = <<"PLUS_PHOTO">> THEN Return("retrieve_image_data")
        ELSE IF embed_item_type = <<"PLACE_V2", "THING_V2", "THING">> THEN Return("nothing")
        ELSE IF embed_item_type = <<"PLUS_AUDIO_V2">>
          THEN IF event.event_type # "VOICEMAIL" THEN Raise("ValueError")
               ELSE Return("nothing")
        ELSE Raise("NotImplementedError")

\* a check of the first annotation only
AnnotationCheck_first(event) ==
    IF Len(event.annotation) > 0 /\ event.annotation[1] # <<>>
      THEN Raise("NotImplementedError")
      ELSE Return(TRUE)

\* the check of the annotations, the last step of the parse
AnnotationCheck(event) ==
    LET annotations == event.annotation
    IN  IF Len(annotations) = 0 THEN Return(TRUE)
        ELSE IF Len(annotations) > 1 THEN Raise("NotImplementedError")
        ELSE IF annotations[1] # <<>> THEN Raise("NotImplementedError")
        ELSE Return(TRUE)

\* the dict parse_hangouts_event returns, with the given parts
Parsed(event, parts) ==
    [parts          |-> parts,
     sender_gaia_id |-> event.sender_gaia_id,
     user_gaia_id   |-> event.user_gaia_id,
     event_id       |-> event.event_id]

-----------------------------------------------------------------------------
(* hangouts.retrieve_image_data.  Times are in milliseconds: the delay      *)
(* (0.5 * retries) ** 2 + randint(0, 1000) / 1000.0 seconds is              *)
(* 250 * retries^2 + jitter milliseconds.                                   *)

max_backoff_time == 10000

JitterMax == 1000

\* the values of random.randint(0, 1000) the model draws: both ends
Jitters == {0, JitterMax}

\* a delay that is not squared
Delay_linear(retries, jitter) == 250 * retries + jitter

Delay(retries, jitter) == 250 * retries * retries + jitter

\* a ceiling on the time slept so far plus the delay
OverCeiling_total(delay, slept) == slept + delay > max_backoff_time

\* a ceiling twice as high
OverCeiling_double(delay, slept) == delay > 2 * max_backoff_time

\* if delay > max_backoff_time: the test reads the delay alone, not the time
\* the call has slept so far
OverCeiling(delay, slept) == delay > max_backoff_time

\* every content type taken for an image
options_any == ContentTypes

options == {"image/jpeg", "image/png", "image/gif"}

\* the response bodies a server sends
Contents == {"c1", "c2"}

\* base64.b64encode(content).decode('ascii')
B64Encode(content) == <<"b64", content>>

\* the HTTP error codes other than 500 and 404 the model draws
OtherCodes == {403, 503}

\* a lookup that never finds the cache file
CacheLookup_miss(event_id) == None

\* if cache_key: ... os.path.exists(cache_file): the cached entry, if any
CacheLookup(event_id) ==
    IF event_id # "" /\ event_id \in DOMAIN cache THEN Some(cache[event_id]) ELSE None

\* a cache file that does not keep the content type
CacheWrite_jpeg(event_id, data) ==
    IF event_id # ""
      THEN (event_id :> [data EXCEPT !.content_type = "image/jpeg"]) @@ cache
      ELSE cache

\* if cache_key: json.dump(data, f)
CacheWrite(event_id, data) ==
    IF event_id # "" THEN (event_id :> data) @@ cache ELSE cache

-----------------------------------------------------------------------------
(* The run: transform_hangouts_data, the conversation transform it calls    *)
(* per conversation, and the parse and transform of each event.  Control    *)
(* is at one place at a time (pc); an uncaught exception ends the run at    *)
(* pc = "raised".                                                           *)

\* the items put before what is there
Extend_front(list, items) == items \o list

\* the items added last first
Extend_reversed(list, items) ==
    list \o [k \in 1..Len(items) |-> items[Len(items) + 1 - k]]

\* list.extend and Element.extend: the items go after what is there, in order
Extend(list, items) == list \o items

\* a count of the sms elements only
Count_sms(elements) == Cardinality({k \in 1..Len(elements) : elements[k].tag = "sms"})

\* str(len(root)): the number of children of the root element
Count(elements) == Len(elements)

\* the warnings of the resolver's participant loop: one per participant of
\* unknown number that is not the owner, up to the participant that raises
ResolverWarnings(conversation) ==
    LET convo == conversation.conversation
        data == convo.participant_data
        Before(i) == ParticipantLoop(
                         [user |-> <<>>, participants |-> <<>>, raised |-> NoValue],
                         SubSeq(data, 1, i - 1), convo.self_gaia_id)
        skipped == {i \in 1..Len(data) :
                       /\ Before(i).raised = NoValue
                       /\ data[i].gaia_id # convo.self_gaia_id
                       /\ data[i].participant_type = "UNKNOWN_PHONE_NUMBER"}
    IN  IF convo.type \notin {"STICKY_ONE_TO_ONE", "GROUP"} THEN <<>>
        ELSE [k \in 1..Cardinality(skipped) |-> "Participant with UNKNOWN_PHONE_NUMBER"]

\* the warning of the parse: an audio attachment of a voicemail is not processed
ParseWarnings(event) ==
    IF /\ ~SegmentParts(event).raised
       /\ Len(event.attachment) = 1
       /\ event.attachment[1].type = <<"PLUS_AUDIO_V2">>
       /\ event.event_type = "VOICEMAIL"
      THEN <<"No processing PLUS_AUDIO_V2">>
      ELSE <<>>

\* no warning for an event without parts
TransformWarnings_silent(parsed_hangouts_event) == <<>>

\* the warning of the event transform: the event has no parts
TransformWarnings(parsed_hangouts_event) ==
    IF Len(parsed_hangouts_event.parts) = 0 THEN <<"NO PARTS FOR MESSAGE">> ELSE <<>>

\* a message_count of 0 taken as a limit as any other
Truthy_always(n) == TRUE

\* Python's truth value of message_count (0 stands for None and for 0)
Truthy(n) == n # 0

Event == archive[ci].events[ei]

\* an exception caught, after which main goes on to write what it has
Fatal_continue(e) == pc' = "done" /\ error' = e

\* an exception nothing catches
Fatal(e) == pc' = "raised" /\ error' = e

\* the end of parse_hangouts_event, after the attachments: the annotation check
ParseFinish(parts) ==
    LET checked == AnnotationCheck(Event)
    IN  IF checked.raised
          THEN Fatal(checked.error) /\ parsed_event' = None
          ELSE /\ pc' = "parsed"
               /\ parsed_event' = Some(Parsed(Event, parts))
               /\ error' = error

\* transform_hangouts_data's loop calls the conversation transform, which
\* resolves the conversation meta before its loop over the events
TransformConversation ==
    /\ pc = "conversation"
    /\ ci <= Len(archive)
    /\ LET meta == parsed_hangouts_conversation_meta(archive[ci])
       IN  IF meta.raised
             THEN /\ Fatal(meta.error)
                  /\ UNCHANGED <<conversation_meta, conv_counter, conversation_messages, ei>>
             ELSE /\ conversation_meta' = Some(meta.value)
                  /\ conv_counter' = message_counter
                  /\ conversation_messages' = <<>>
                  /\ ei' = 1
                  /\ pc' = IF Len(archive[ci].events) = 0
                           THEN "conversation_done" ELSE "event"
                  /\ error' = error
    /\ parsed_event' = None
    /\ messages' = None
    /\ warnings' = warnings \o ResolverWarnings(archive[ci])
    /\ UNCHANGED <<archive, message_count, ci, message_counter, root, root_count,
                   cache, call, fetch_log, output>>
    /\ MainFrame

\* parse_hangouts_event up to its return or to the first urlopen of the
\* retrieve_image_data call it makes
ParseHangoutsEvent ==
    /\ pc = "event"
    /\ LET segment_parts == SegmentParts(Event)
           dispatch == AttachmentDispatch(Event)
           hit == CacheLookup(Event.event_id)
       IN  IF segment_parts.raised
             THEN /\ Fatal(segment_parts.error)
                  /\ parsed_event' = None
                  /\ UNCHANGED <<call, fetch_log>>
           ELSE IF dispatch.raised
             THEN /\ Fatal(dispatch.error)
                  /\ parsed_event' = None
                  /\ UNCHANGED <<call, fetch_log>>
           ELSE IF dispatch.value = "nothing"
             THEN /\ ParseFinish(segment_parts.value)
                  /\ UNCHANGED <<call, fetch_log>>
           ELSE IF hit # None
             THEN /\ ParseFinish(Append(segment_parts.value, hit[1]))
                  /\ fetch_log' = Append(fetch_log,
                         [event_id |-> Event.event_id, url |-> Event.attachment[1].url,
                          fetches |-> 0, response |-> None, delay |-> 0,
                          outcome |-> "cache", result |-> Some(hit[1])])
                  /\ call' = None
           ELSE /\ pc' = "urlopen"
                /\ parsed_event' = Some(Parsed(Event, segment_parts.value))
                /\ call' = Some([url |-> Event.attachment[1].url,
                                 event_id |-> Event.event_id,
                                 retries |-> 0, slept |-> 0, last_delay |-> 0])
                /\ UNCHANGED <<error, fetch_log>>
    /\ messages' = None
    /\ warnings' = warnings \o ParseWarnings(Event)
    /\ UNCHANGED <<archive, message_count, ci, ei, message_counter, conv_counter,
                   conversation_meta, conversation_messages, root, root_count, cache,
                   output>>
    /\ MainFrame

\* what urlopen got from the server
Response(status, content_type, content) ==
    [status |-> status, content_type |-> content_type, content |-> content]

\* the entry of fetch_log for the call in progress, which ends after one more
\* urlopen: that last response, the delay computed for it when it is a 500,
\* how the call ended and what it returned
LogEntry(response, delay, outcome, result) ==
    [event_id |-> call[1].event_id, url |-> call[1].url,
     fetches |-> call[1].retries + 1, response |-> Some(response), delay |-> delay,
     outcome |-> outcome, result |-> result]

\* a server of fixed behaviour answers a URL with HTTP 500 a number of times,
\* then with its response; any other server answers anything
Answers500 ==
    server # None => call[1].retries < server[1][call[1].url].failures

Answers(response) ==
    server # None => /\ call[1].retries >= server[1][call[1].url].failures
                     /\ server[1][call[1].url].response = response

UrlopenFrame ==
    /\ UNCHANGED <<archive, message_count, ci, ei, message_counter, conv_counter,
                   conversation_meta, messages, conversation_messages, root, root_count,
                   output>>
    /\ MainFrame

\* urlopen raises HTTPError 500: sleep the delay and fetch again, or re-raise
\* when the delay is over max_backoff_time
Http500 ==
    /\ pc = "urlopen"
    /\ Answers500
    /\ \E jitter \in Jitters :
          LET retries == call[1].retries + 1
              delay == Delay(retries, jitter)
          IN  IF OverCeiling(delay, call[1].slept)
                THEN /\ Fatal("HTTPError")
                     /\ parsed_event' = None
                     /\ call' = None
                     /\ fetch_log' = Append(fetch_log,
                                        LogEntry(Response(500, "", ""), delay, "raised", None))
                ELSE /\ call' = Some([call[1] EXCEPT !.retries = retries,
                                                     !.slept = @ + delay,
                                                     !.last_delay = delay])
                     /\ UNCHANGED <<pc, error, parsed_event, fetch_log>>
    /\ UNCHANGED <<cache, warnings>>
    /\ UrlopenFrame

\* urlopen raises HTTPError 404: return the diagnostic part
Http404 ==
    /\ pc = "urlopen"
    /\ Answers(Response(404, "", ""))
    /\ warnings' = Append(warnings, "received 404 error")
    /\ LET text == generate_error_text(MESSAGE_ERROR_IMAGE_NOT_FOUND, call[1].url)
           part == [error |-> "HTTPError", content_type |-> "text/plain",
                    text |-> text.value]
       IN  IF text.raised
             THEN /\ Fatal(text.error)
                  /\ parsed_event' = None
                  /\ fetch_log' = Append(fetch_log, LogEntry(Response(404, "", ""), 0, "raised", None))
             ELSE /\ ParseFinish(Append(parsed_event[1].parts, part))
                  /\ fetch_log' = Append(fetch_log,
                                     LogEntry(Response(404, "", ""), 0, "diagnostic", Some(part)))
    /\ call' = None
    /\ UNCHANGED cache
    /\ UrlopenFrame

\* another code taken as a 500 without delay: fetch again
HttpError_retry ==
    /\ pc = "urlopen"
    /\ \E code \in OtherCodes :
          /\ Answers(Response(code, "", ""))
          /\ call' = Some([call[1] EXCEPT !.retries = @ + 1])
    /\ UNCHANGED <<pc, error, parsed_event, fetch_log, cache, warnings>>
    /\ UrlopenFrame

\* urlopen raises HTTPError with another code: re-raise
HttpError ==
    /\ pc = "urlopen"
    /\ \E code \in OtherCodes :
          /\ Answers(Response(code, "", ""))
          /\ Fatal("HTTPError")
          /\ fetch_log' = Append(fetch_log, LogEntry(Response(code, "", ""), 0, "raised", None))
    /\ parsed_event' = None
    /\ call' = None
    /\ UNCHANGED <<cache, warnings>>
    /\ UrlopenFrame

\* urlopen answers: check the content type, encode, write the cache file, return
HttpOK ==
    /\ pc = "urlopen"
    /\ \E content_type \in ContentTypes, content \in Contents :
          LET data == [content_type |-> content_type, data |-> B64Encode(content)]
          IN  /\ Answers(Response(200, content_type, content))
              /\ IF content_type \notin options
                THEN /\ Fatal("ValueError")
                     /\ parsed_event' = None
                     /\ cache' = cache
                     /\ fetch_log' = Append(fetch_log,
                                        LogEntry(Response(200, content_type, content),
                                                 0, "raised", None))
                ELSE /\ ParseFinish(Append(parsed_event[1].parts, data))
                     /\ cache' = CacheWrite(call[1].event_id, data)
                     /\ fetch_log' = Append(fetch_log,
                                        LogEntry(Response(200, content_type, content),
                                                 0, "fetched", Some(data)))
    /\ call' = None
    /\ UNCHANGED warnings
    /\ UrlopenFrame

\* the rest of the loop body of the conversation transform: transform the
\* parsed event, extend, count, and leave the loop over the limit
TransformEvent ==
    /\ pc = "parsed"
    /\ LET got == transform_parsed_hangouts_event_to_sms_backup_and_restore(
                      parsed_event[1], conversation_meta[1])
       IN  IF got.raised
             THEN /\ Fatal(got.error)
                  /\ UNCHANGED <<messages, conversation_messages, conv_counter, ei>>
             ELSE /\ messages' = Some(got.value)
                  /\ conversation_messages' = Extend(conversation_messages, got.value)
                  /\ conv_counter' = conv_counter + 1
                  /\ IF \/ Truthy(message_count) /\ conv_counter + 1 > message_count
                        \/ ei = Len(archive[ci].events)
                       THEN pc' = "conversation_done" /\ ei' = ei
                       ELSE pc' = "event" /\ ei' = ei + 1
                  /\ error' = error
    /\ warnings' = warnings \o TransformWarnings(parsed_event[1])
    /\ UNCHANGED <<archive, message_count, ci, message_counter, conversation_meta,
                   parsed_event, root, root_count, cache, call, fetch_log, output>>
    /\ MainFrame

\* the conversation transform returns: extend the root and test the limit
\* against transform_hangouts_data's own message_counter
EndConversation ==
    /\ pc = "conversation_done"
    /\ root' = Extend(root, conversation_messages)
    /\ IF Truthy(message_count) /\ message_counter > message_count
         THEN pc' = "count" /\ ci' = ci
         ELSE pc' = "conversation" /\ ci' = ci + 1
    /\ UNCHANGED <<archive, message_count, ei, message_counter, conv_counter,
                   conversation_meta, parsed_event, messages, conversation_messages,
                   root_count, error, cache, call, fetch_log, output, warnings>>
    /\ MainFrame

\* after the loop over the conversations: root.attrib['count'] = str(len(root))
FinishData ==
    /\ pc \in {"conversation", "count"}
    /\ pc = "conversation" => ci > Len(archive)
    /\ root_count' = Count(root)
    /\ pc' = "done"
    /\ UNCHANGED <<archive, message_count, ci, ei, message_counter, conv_counter,
                   conversation_meta, parsed_event, messages, conversation_messages,
                   root, error, cache, call, fetch_log, output, warnings>>
    /\ MainFrame

-----------------------------------------------------------------------------
(* cli.main, and the files it reads and writes.  The content of a file is   *)
(* [kind, info, count, messages]: info is the comment on its second line,   *)
(* as the sequence of its words; count and messages are the root's count    *)
(* attribute and children.  The generation fields (backup_set, backup_date, *)
(* the time in the comment) are left out.                                   *)

FileCreatedBy == <<"File", "Created", "By">>

\* the output path left as it was found
Placeholder_previous ==
    [kind |-> "previous", info |-> <<>>, count |-> -1, messages |-> <<>>]

\* f.write('this is a check')
Placeholder ==
    [kind |-> "placeholder", info |-> <<>>, count |-> -1, messages |-> <<>>]

\* a comment written as the app writes its own
write_sms_backup_and_restore_by(count, elements) ==
    [kind |-> "document",
     info |-> <<"File", "Created", "By", "SMS", "Backup", "&", "Restore",
                "v10.06.110", "By", "EarthAstronaut", "at">>,
     count |-> count, messages |-> elements]

\* what write_sms_backup_and_restore writes: the declaration, the comment
\* "File Created For SMS Backup & Restore v10.06.110  By EarthAstronaut at
\* <now>", and the tree
write_sms_backup_and_restore(count, elements) ==
    [kind |-> "document",
     info |-> <<"File", "Created", "For", "SMS", "Backup", "&", "Restore",
                "v10.06.110", "By", "EarthAstronaut", "at">>,
     count |-> count, messages |-> elements]

\* the words a version reads as, with the groups of r'.*v(\d*)\.(\d*)\.(\d*)'
Versions ==
    [word \in {"v10.06.110", "v10.11.2", "v9.06.1", "v9.11.2"} |->
        CASE word = "v10.06.110" -> <<"10", "06", "110">>
          [] word = "v10.11.2"   -> <<"10", "11", "2">>
          [] word = "v9.06.1"    -> <<"9", "06", "1">>
          [] word = "v9.11.2"    -> <<"9", "11", "2">>]

\* re.match(...) on the comment: the groups at the last word that is a
\* version, None without one
VersionMatch(info) ==
    LET at == {i \in 1..Len(info) : info[i] \in DOMAIN Versions}
    IN  IF at = {} THEN None
        ELSE Some(Versions[info[CHOOSE i \in at : \A j \in at : j <= i]])

\* read_sms_backup_and_restore: [raised, value] with value the root read and
\* the warnings logged
read_sms_backup_and_restore(file) ==
    LET matched == VersionMatch(file.info)
        major == matched[1][1]
        minor == matched[1][2]
    IN  IF file.kind # "document" THEN Raise("ParseError")
        ELSE IF ~IsSubstring(FileCreatedBy, file.info) THEN Raise("ValueError")
        ELSE IF matched = None THEN Raise("AttributeError")
        ELSE Return([count |-> file.count, messages |-> file.messages,
                     warnings |-> IF major # "10" /\ minor # "06"
                                  THEN <<"may not work with this version">>
                                  ELSE <<>>])

\* main up to the call of transform_hangouts_data: the placeholder is
\* written, then the archive is read (archive is what the read returns)
MainStart ==
    /\ pc = "main"
    /\ output' = Placeholder
    /\ pc' = "conversation"
    /\ UNCHANGED <<archive, message_count, ci, ei, message_counter, conv_counter,
                   conversation_meta, parsed_event, messages, conversation_messages,
                   root, root_count, error, cache, call, fetch_log, warnings>>
    /\ MainFrame

\* main after transform_hangouts_data returned: append the messages of the
\* existing document if one is given, count, write
MainFinish ==
    /\ pc = "done"
    /\ LET smses == IF existing = None
                      THEN Return([count |-> 0, messages |-> <<>>, warnings |-> <<>>])
                      ELSE read_sms_backup_and_restore(existing[1])
           smses_google == Extend(root, smses.value.messages)
       IN  IF smses.raised
             THEN /\ Fatal(smses.error)
                  /\ UNCHANGED <<root, root_count, output, warnings>>
             ELSE /\ root' = smses_google
                  /\ root_count' = Count(smses_google)
                  /\ output' = write_sms_backup_and_restore(Count(smses_google),
                                                            smses_google)
                  /\ warnings' = warnings \o smses.value.warnings
                  /\ pc' = "written"
                  /\ error' = error
    /\ UNCHANGED <<archive, message_count, ci, ei, message_counter, conv_counter,
                   conversation_meta, parsed_event, messages, conversation_messages,
                   cache, call, fetch_log>>
    /\ MainFrame

Next ==
    \/ MainStart
    \/ TransformConversation
    \/ ParseHangoutsEvent
    \/ Http500
    \/ Http404
    \/ HttpError
    \/ HttpOK
    \/ TransformEvent
    \/ EndConversation
    \/ FinishData
    \/ MainFinish

\* main is run again once it ended: the cache files of the first run, the
\* archive, the arguments and the server are what they were
Rerun ==
    /\ run = 1
    /\ pc \in {"written", "raised"}
    /\ run' = 2
    /\ first_output' = Some(output)
    /\ pc' = "main"
    /\ ci' = 1
    /\ ei' = 1
    /\ message_counter' = 0
    /\ conv_counter' = 0
    /\ conversation_meta' = None
    /\ parsed_event' = None
    /\ messages' = None
    /\ conversation_messages' = <<>>
    /\ root' = <<>>
    /\ root_count' = -1
    /\ error' = NoValue
    /\ call' = None
    /\ fetch_log' = <<>>
    /\ warnings' = <<>>
    /\ UNCHANGED <<archive, message_count, cache, output, existing, server>>

NextRerun == Next \/ Rerun

-----------------------------------------------------------------------------
(* Inputs.  The participant at position i of participant_data has gaia id   *)
(* i, e164 number "+i" and fallback name "ni"; the owner is one of them.    *)

MaxParticipants == 3

RawParticipant(i, kind) ==
    [gaia_id |-> i, participant_type |-> kind[1], has_phone_number |-> kind[2],
     e164 |-> <<"+", ToString(i)>>, fallback_name |-> <<"n", ToString(i)>>]

\* <<participant_type, whether the participant has a phone_number>>
OwnerKind == <<"GAIA", TRUE>>

ParticipantKinds ==
    {<<"GAIA", TRUE>>, <<"GAIA", FALSE>>, <<"OFF_NETWORK_PHONE", TRUE>>,
     <<"UNKNOWN_PHONE_NUMBER", FALSE>>, <<"MALFORMED_PHONE_NUMBER", FALSE>>}

RawConversation(type, self_gaia_id, kinds, events) ==
    [conversation |->
        [type |-> type, self_gaia_id |-> self_gaia_id,
         participant_data |-> [i \in 1..Len(kinds) |-> RawParticipant(i, kinds[i])]],
     events |-> events]

\* the kinds of n participants of whom the one at position owner is the owner
KindsWithOwner(n, owner, kinds) ==
    {[i \in 1..n |-> IF i = owner THEN OwnerKind ELSE others[i]] :
        others \in [1..n -> kinds]}

\* the conversations, without events, of up to MaxParticipants participants
ConversationsOf(types, kinds) ==
    UNION {{RawConversation(type, no[2], k, <<>>) :
                type \in types, k \in KindsWithOwner(no[1], no[2], kinds)} :
           no \in {x \in (1..MaxParticipants) \X (1..MaxParticipants) : x[2] <= x[1]}}

WithEvents(conversation, events) == [conversation EXCEPT !.events = events]

RawEvent(event_id, sender, user, event_type, segment, attachment, annotation) ==
    [event_id |-> event_id, sender_gaia_id |-> sender, user_gaia_id |-> user,
     event_type |-> event_type, segment |-> segment, attachment |-> attachment,
     annotation |-> annotation]

Photo(url) == [type |-> <<"PLUS_PHOTO">>, url |-> url]

TextSegment(text) == [type |-> "TEXT", text |-> text]

Urls == {<<"u", "1">>, <<"u", ":", ":", " ", "2">>}

\* message texts, some with the characters the escape rewrites
Texts == {<<>>, <<"a">>, <<"a", "&", "b">>, <<"<", ">">>, <<"a", "\n">>}

\* the events of a conversation: sent by any of its participants, the owner
\* the conversation's, with each of the segment lists and attachment lists
EventsOf(conversation, event_ids, segments, attachments) ==
    {RawEvent(id, sender, conversation.conversation.self_gaia_id,
              "REGULAR_CHAT_MESSAGE", segment, attachment, <<>>) :
        id \in event_ids,
        sender \in 1..Len(conversation.conversation.participant_data),
        segment \in segments, attachment \in attachments}

\* archives of one conversation with one event
Singles(conversations, event_ids, segments, attachments) ==
    UNION {{<<WithEvents(c, <<e>>)>> :
                e \in EventsOf(c, event_ids, segments, attachments)} :
           c \in conversations}

\* conversations of the owner with one participant, with one of unknown
\* number, and with two participants
FewConversations ==
    {RawConversation(type, 1, kinds, <<>>) :
        type \in {"STICKY_ONE_TO_ONE", "GROUP"},
        kinds \in {<<OwnerKind, <<"GAIA", TRUE>>>>,
                   <<OwnerKind, <<"UNKNOWN_PHONE_NUMBER", FALSE>>>>,
                   <<OwnerKind, <<"GAIA", TRUE>>, <<"OFF_NETWORK_PHONE", TRUE>>>>}}

\* Inputs for the event transform, one conversation with one event: every
\* conversation shape with a text event, and a few shapes with every text and
\* with the events that have a photo
EmitArchives ==
    Singles(ConversationsOf({"STICKY_ONE_TO_ONE", "GROUP"}, ParticipantKinds),
            {"e1"}, {Some(<<TextSegment(<<"a", "&", "b">>)>>)}, {<<>>})
    \cup
    Singles(FewConversations, {"e1"}, {Some(<<TextSegment(t)>>) : t \in Texts}, {<<>>})
    \cup
    Singles(FewConversations, {"e1"}, {None, Some(<<TextSegment(<<"a">>)>>)},
            {<<Photo(<<"u", "1">>)>>})

\* what the output path holds before the run, if anything
PreviousContent ==
    [kind |-> "previous", info |-> <<>>, count |-> -1, messages |-> <<>>]

InitWith(archives, message_counts) ==
    /\ archive \in archives
    /\ message_count \in message_counts
    /\ pc = "main"
    /\ ci = 1
    /\ ei = 1
    /\ message_counter = 0
    /\ conv_counter = 0
    /\ conversation_meta = None
    /\ parsed_event = None
    /\ messages = None
    /\ conversation_messages = <<>>
    /\ root = <<>>
    /\ root_count = -1
    /\ error = NoValue
    /\ cache = <<>>
    /\ call = None
    /\ fetch_log = <<>>
    /\ output = PreviousContent
    /\ warnings = <<>>
    /\ run = 1
    /\ first_output = None

InitEmit == InitWith(EmitArchives, {0}) /\ existing = None /\ server = None

SpecEmit == InitEmit /\ [][Next]_vars

-----------------------------------------------------------------------------
(* Inputs for the resolver: the conversations of every type, one of them    *)
(* unknown, of up to MaxParticipants participants of every kind, among      *)
(* them an off-network participant without number and one of a              *)
(* classification the code does not know; and a conversation without its    *)
(* owner.  Each has one text event, sent by any of its participants.        *)

ResolveKinds ==
    ParticipantKinds \cup {<<"OFF_NETWORK_PHONE", FALSE>>, <<"BOT", TRUE>>}

\* a group of the owner, two participants that are listed and one of
\* unknown number
GroupOfFour ==
    RawConversation("GROUP", 1,
                    <<OwnerKind, <<"GAIA", TRUE>>, <<"MALFORMED_PHONE_NUMBER", FALSE>>,
                      <<"UNKNOWN_PHONE_NUMBER", FALSE>>>>, <<>>)

ResolveArchives ==
    Singles(ConversationsOf({"STICKY_ONE_TO_ONE", "GROUP"}, ResolveKinds)
                \cup ConversationsOf({"BROADCAST"}, {<<"GAIA", TRUE>>})
                \cup {RawConversation("GROUP", 0, <<<<"GAIA", TRUE>>>>, <<>>), GroupOfFour},
            {"e1"}, {Some(<<TextSegment(<<"a">>)>>)}, {<<>>})
    \cup
    Singles(FewConversations, {"e1"}, {None}, {<<Photo(<<"u", "1">>)>>})

InitResolve == InitWith(ResolveArchives, {0}) /\ existing = None /\ server = None

SpecResolve == InitResolve /\ [][Next]_vars

-----------------------------------------------------------------------------
(* Inputs for retrieve_image_data: one conversation with two photo events,  *)
(* of equal or different event ids (one of them empty) and URLs.            *)

OneToOne == RawConversation("STICKY_ONE_TO_ONE", 1, <<OwnerKind, <<"GAIA", TRUE>>>>, <<>>)

PhotoEvent(event_id, url) ==
    RawEvent(event_id, 2, 1, "REGULAR_CHAT_MESSAGE", None, <<Photo(url)>>, <<>>)

FetchArchives ==
    {<<WithEvents(OneToOne, <<PhotoEvent(id1, <<"u", "1">>), PhotoEvent(id2, url2)>>)>> :
        id1 \in {"", "e1"}, id2 \in {"", "e1", "e2"}, url2 \in Urls}

InitFetch == InitWith(FetchArchives, {0}) /\ existing = None /\ server = None

SpecFetch == InitFetch /\ [][Next]_vars

\* the archives of two photo events of different ids
LiveArchives ==
    {a \in FetchArchives : a[1].events[1].event_id = "e1" /\ a[1].events[2].event_id = "e2"}

InitFetchLive == InitWith(LiveArchives, {0}) /\ existing = None /\ server = None

\* the run goes on while it can: urlopen answers or raises, and a sleep ends
SpecFetchLive == InitFetchLive /\ [][Next]_vars /\ WF_vars(Next)

-----------------------------------------------------------------------------
(* Inputs for two runs on the same archive against the same server: the     *)
(* archives of two photo events, and per URL a server that answers with     *)
(* HTTP 500 no time or once before its response, or every time.             *)

ServerResponses ==
    {Response(200, "image/jpeg", "c1"), Response(200, "image/png", "c2"),
     Response(200, "text/html", "c1"), Response(404, "", ""), Response(403, "", ""),
     Response(503, "", "")}

ServerBehaviours ==
    {[failures |-> failures, response |-> response] :
        failures \in {0, 1}, response \in ServerResponses}
    \cup {[failures |-> 7, response |-> Response(500, "", "")]}

InitRerun ==
    /\ InitWith(FetchArchives, {0})
    /\ existing = None
    /\ server \in {Some(behaviour) : behaviour \in [Urls -> ServerBehaviours]}

SpecRerun == InitRerun /\ [][NextRerun]_vars

-----------------------------------------------------------------------------
(* Inputs for parse_hangouts_event: one conversation with one event, of     *)
(* each segment list of up to MaxSegments segments, each attachment list,   *)
(* each annotation list, sent by the owner or by the participant; and the   *)
(* same followed by a second event.                                         *)

MaxSegments == 2

\* a segment of each type, one of them without a text, and one of a type
\* the code does not know
SegmentValues ==
    {TextSegment(<<"a">>), TextSegment(<<>>),
     [type |-> "LINE_BREAK", text |-> <<"\n">>],
     [type |-> "LINK", text |-> <<"x">>],
     [type |-> "MENTION", text |-> <<"m">>]}

SegmentLists == UNION {[1..n -> SegmentValues] : n \in 0..MaxSegments}

Embedded(type) == [type |-> type, url |-> <<>>]

Place == Embedded(<<"PLACE_V2", "THING_V2", "THING">>)

Audio == Embedded(<<"PLUS_AUDIO_V2">>)

\* no attachment, one of each known type, one of an unknown type, and two
AttachmentLists ==
    {<<>>, <<Photo(<<"u", "1">>)>>, <<Place>>, <<Audio>>,
     <<Embedded(<<"PLUS_VIDEO">>)>>, <<Place, Place>>}

\* the values of the annotations: none, one empty, one not empty, and two
AnnotationLists ==
    {<<>>, <<<<>>>>, <<<<"v">>>>, <<<<>>, <<>>>>, <<<<>>, <<"v">>>>}

EventTypes == {"REGULAR_CHAT_MESSAGE", "VOICEMAIL"}

ParseEvents ==
    {RawEvent("e1", sender, 1, "REGULAR_CHAT_MESSAGE", Some(segments), <<>>, <<>>) :
        sender \in 1..2, segments \in SegmentLists}
    \cup
    {RawEvent("e1", sender, 1, event_type, segment, attachment, annotation) :
        sender \in 1..2, event_type \in EventTypes,
        segment \in {None, Some(<<>>), Some(<<TextSegment(<<"a">>)>>),
                     Some(<<[type |-> "MENTION", text |-> <<"m">>]>>)},
        attachment \in AttachmentLists, annotation \in AnnotationLists}

\* the event that comes second
SecondEvent ==
    RawEvent("e2", 2, 1, "REGULAR_CHAT_MESSAGE", Some(<<TextSegment(<<"b">>)>>), <<>>, <<>>)

ParseArchives ==
    {<<WithEvents(OneToOne, <<e>>)>> : e \in ParseEvents}
    \cup {<<WithEvents(OneToOne, <<e, SecondEvent>>)>> : e \in ParseEvents}

InitParse == InitWith(ParseArchives, {0}) /\ existing = None /\ server = None

SpecParse == InitParse /\ [][Next]_vars

-----------------------------------------------------------------------------
(* Inputs for the run: up to MaxConversations conversations of up to        *)
(* MaxEvents text events each, the event at position j of conversation i    *)
(* having the text "ij", and each message limit; and one archive with       *)
(* photo events.                                                            *)

MaxConversations == 2

MaxEvents == 3

MaxMessageCount == 2

TextEvent(i, j) ==
    RawEvent("e" \o ToString(i) \o ToString(j), 2, 1, "REGULAR_CHAT_MESSAGE",
             Some(<<TextSegment(<<ToString(i), ToString(j)>>)>>), <<>>, <<>>)

\* the archive whose conversation i has counts[i] events
TextArchive(counts) ==
    [i \in 1..Len(counts) |->
        WithEvents(OneToOne, [j \in 1..counts[i] |-> TextEvent(i, j)])]

\* an event of a text and a photo, which the owner sent
TextPhotoEvent(event_id, url) ==
    RawEvent(event_id, 1, 1, "REGULAR_CHAT_MESSAGE",
             Some(<<TextSegment(<<"p">>)>>), <<Photo(url)>>, <<>>)

\* two conversations of a text event and an event with the same photo
MixedArchive ==
    <<WithEvents(OneToOne, <<TextEvent(1, 1), TextPhotoEvent("e1", <<"u", "1">>)>>),
      WithEvents(OneToOne, <<PhotoEvent("e1", <<"u", "1">>), TextEvent(2, 2)>>)>>

RunArchives ==
    {TextArchive(counts) :
        counts \in UNION {[1..n -> 0..MaxEvents] : n \in 0..MaxConversations}}
    \cup {<<WithEvents(OneToOne, <<PhotoEvent("e1", <<"u", "1">>),
                                   PhotoEvent("e1", <<"u", "1">>)>>)>>,
          MixedArchive}

MaxExisting == 2

\* a message of an existing document
ExistingSms(k) ==
    [tag |-> "sms", address |-> <<"+", "9">>, type |-> "1", body |-> <<"x", ToString(k)>>]

\* the comment of a file the SMS Backup & Restore app wrote
AppInfo(version) ==
    <<"File", "Created", "By", "SMS", "Backup", "&", "Restore", version, "on">>

ExistingDocument(info, count, n) ==
    [kind |-> "document", info |-> info, count |-> count,
     messages |-> [k \in 1..n |-> ExistingSms(k)]]

\* the files at the --existing path: documents of the app of up to
\* MaxExisting messages, whose count attribute may be stale, of each
\* version; a document without a version in its comment; a document this
\* program wrote; and a file that is not XML
ExistingFiles ==
    {ExistingDocument(AppInfo("v10.06.110"), n, n) : n \in 0..MaxExisting}
    \cup {ExistingDocument(AppInfo(version), 0, 1) : version \in DOMAIN Versions}
    \cup {ExistingDocument(<<"File", "Created", "By", "hand">>, 1, 1),
          write_sms_backup_and_restore(1, <<ExistingSms(1)>>),
          Placeholder}

Init ==
    /\ InitWith(RunArchives, 0..MaxMessageCount)
    /\ existing \in {None} \cup {Some(file) : file \in ExistingFiles}
    /\ server = None

Spec == Init /\ [][Next]_vars

-----------------------------------------------------------------------------
(* Properties of the event transform.  They read the state after            *)
(* TransformEvent: messages holds what the transform returned for           *)
(* parsed_event under conversation_meta.                                    *)

Transformed == messages # None

TheParts == parsed_event[1].parts

TheMeta == conversation_meta[1]

TheMessages == messages[1]

IsTextPart(part) == part.content_type = "text/plain"

OneTextPart == Len(TheParts) = 1 /\ IsTextPart(TheParts[1])

HasSms == \E i \in 1..Len(TheMessages) : TheMessages[i].tag = "sms"

OnlyMms == \A i \in 1..Len(TheMessages) : TheMessages[i].tag = "mms"

\* the content part of an mms is the given parsed part
IsContentOf(element_part, parsed_part) ==
    /\ element_part.ct = parsed_part.content_type
    /\ IF IsTextPart(parsed_part)
         THEN element_part.text = xml_escape_text(parsed_part.text)
         ELSE element_part.data = parsed_part.data

\* one mms per part, in part order, each of the presentation part and the part
OneMmsPerPart ==
    /\ Len(TheMessages) = Len(TheParts)
    /\ \A i \in 1..Len(TheMessages) :
          /\ TheMessages[i].tag = "mms"
          /\ Len(TheMessages[i].parts) = 2
          /\ TheMessages[i].parts[1] = [seq |-> "-1", ct |-> "application/smil"]
          /\ IsContentOf(TheMessages[i].parts[2], TheParts[i])

\* C1: a one-to-one conversation's event of one text part with body t gives
\* exactly one sms, whose body is t (stated for the one-to-one conversations
\* that have their one participant)
C1_SmsBodyIsText ==
    (Transformed /\ OneTextPart /\ TheMeta.conversation_type = "one_to_one"
        /\ TheMeta.participants_count = 1)
        => /\ Len(TheMessages) = 1
           /\ TheMessages[1].tag = "sms"
           /\ TheMessages[1].body = TheParts[1].text

\* C2 as stated, its "only if" half: an event with parts gives an sms only if
\* it has one part, the part is textual and the conversation's type is
\* one-to-one; in every other case it gives only mms
C2_SmsOnlyIfOneToOneType ==
    (Transformed /\ Len(TheParts) >= 1)
        => LET sms_case == OneTextPart /\ TheMeta.conversation_type = "one_to_one"
           IN  /\ HasSms => sms_case
               /\ ~sms_case => OnlyMms

\* C2 as amended: an event with parts gives an sms iff it has one part, the
\* part is textual and the conversation has exactly one resolved participant
\* (whatever its type), and only mms otherwise
C2_SmsIffOneParticipant ==
    (Transformed /\ Len(TheParts) >= 1)
        => LET sms_case == OneTextPart /\ TheMeta.participants_count = 1
           IN  /\ HasSms <=> sms_case
               /\ ~sms_case => OnlyMms /\ Len(TheMessages) >= 1

\* a group conversation with one resolved participant: its text event is an sms
C2_Witness ==
    /\ Transformed
    /\ OneTextPart
    /\ TheMeta.conversation_type = "group"
    /\ TheMeta.participants_count = 1
    /\ HasSms

\* C3 as stated: an event of two or more parts, or of a group conversation,
\* gives one mms per part, each of the presentation part and the content part
C3_MmsPerPartForGroup ==
    (Transformed /\ Len(TheParts) >= 1
        /\ (Len(TheParts) >= 2 \/ TheMeta.conversation_type = "group"))
        => OneMmsPerPart

\* C3 as amended: an event of two or more parts, or of a conversation whose
\* number of resolved participants is not one, gives one mms per part, in
\* part order, each of the presentation part and the content part; no mms
\* has an empty parts list
C3_MmsPerPart ==
    /\ (Transformed /\ Len(TheParts) >= 1
           /\ (Len(TheParts) >= 2 \/ TheMeta.participants_count # 1))
          => OneMmsPerPart
    /\ \A i \in 1..Len(root) : root[i].tag = "mms" => Len(root[i].parts) >= 1

\* an event of a text and an image has been transformed
C3_Witness ==
    /\ Transformed
    /\ Len(TheParts) = 2
    /\ Len(TheMessages) = 2
    /\ TheMessages[2].parts[2].ct \in options

FromCount(addrs) == Cardinality({i \in 1..Len(addrs) : addrs[i].type = "137"})

\* C4 as stated: the address list of every mms has participants_count + 1
\* entries, exactly one of them From
C4_AddrsWithOwner ==
    Transformed =>
        \A i \in 1..Len(TheMessages) :
            TheMessages[i].tag = "mms" =>
                /\ Len(TheMessages[i].addrs) = TheMeta.participants_count + 1
                /\ FromCount(TheMessages[i].addrs) = 1

\* C4 as amended: the address list of every mms has one entry per resolved
\* participant, in order, From for the sender and To for the others; the
\* owner has no entry, so there is one From entry when the sender is a
\* resolved participant and none otherwise
C4_AddrsOfParticipants ==
    Transformed =>
        \A i \in 1..Len(TheMessages) :
            TheMessages[i].tag = "mms" =>
                LET addrs == TheMessages[i].addrs
                    sender == parsed_event[1].sender_gaia_id
                    senders == {j \in 1..Len(TheMeta.participants) :
                                   TheMeta.participants[j].gaia_id = sender}
                IN  /\ Len(addrs) = TheMeta.participants_count
                    /\ \A j \in 1..Len(addrs) :
                          /\ addrs[j].address = TheMeta.participants[j].phone_number
                          /\ addrs[j].type = IF j \in senders THEN "137" ELSE "151"
                    /\ FromCount(addrs) = Cardinality(senders)
                    /\ Cardinality(senders) <= 1
                    /\ sender = TheMeta.user.gaia_id => FromCount(addrs) = 0

\* an mms of a conversation with two participants, sent by one of them
C4_Witness ==
    /\ Transformed
    /\ Len(TheMessages) >= 1
    /\ TheMessages[1].tag = "mms"
    /\ Len(TheMessages[1].addrs) = 2
    /\ FromCount(TheMessages[1].addrs) = 1

\* C5: the resolver returns no meta of a one-to-one conversation whose
\* number of resolved participants is not one
C5_OneToOneHasOneParticipant ==
    (conversation_meta # None /\ TheMeta.conversation_type = "one_to_one")
        => TheMeta.participants_count = 1

-----------------------------------------------------------------------------
(* Properties of the run's message limit *)

\* another conversation is about to be, or is being, transformed
MoreConversations ==
    \/ pc = "conversation" /\ ci <= Len(archive)
    \/ pc \in {"event", "urlopen", "parsed", "conversation_done"}

\* C6: with a limit set, once the messages emitted over the conversations so
\* far exceed the limit, no further conversation is processed
C6_StopsOverLimit ==
    (Truthy(message_count) /\ Len(root) > message_count) => ~MoreConversations

-----------------------------------------------------------------------------
(* Properties of retrieve_image_data, read from fetch_log (the calls that   *)
(* ended) and call (the call that is between two fetches).                  *)

Calls == 1..Len(fetch_log)

Status(entry) == entry.response[1].status

\* C7: a 404 makes the call return the text/plain diagnostic part whose text
\* holds the IMAGE NOT FOUND marker and the URL
C7_NotFoundReturnsDiagnostic ==
    \A i \in Calls :
        (fetch_log[i].response # None /\ Status(fetch_log[i]) = 404)
            => /\ fetch_log[i].outcome = "diagnostic"
               /\ fetch_log[i].result # None
               /\ fetch_log[i].result[1].content_type = "text/plain"
               /\ IsSubstring(MESSAGE_ERROR_IMAGE_NOT_FOUND, fetch_log[i].result[1].text)
               /\ IsSubstring(fetch_log[i].url, fetch_log[i].result[1].text)

\* C8: a call that meets 500s whose delays are within max_backoff_time goes
\* on fetching, and returns the image part when the server then answers with
\* an accepted content type, however many 500s came before; the 500 whose
\* delay is over max_backoff_time, and no other, makes the call raise, and
\* the run ends with that error
C8_RetryThenImageOrFatal ==
    /\ call # None => call[1].last_delay <= max_backoff_time
    /\ \A i \in Calls :
          LET entry == fetch_log[i]
              response == entry.response[1]
          IN  entry.response # None =>
                /\ (response.status = 200 /\ response.content_type \in options)
                      => /\ entry.outcome = "fetched"
                         /\ entry.result =
                                Some([content_type |-> response.content_type,
                                      data |-> B64Encode(response.content)])
                /\ response.status = 500
                      => /\ entry.delay > max_backoff_time
                         /\ entry.outcome = "raised"
                         /\ i = Len(fetch_log)
                         /\ pc = "raised"
                         /\ error = "HTTPError"

\* three 500s within the ceiling, then the image
C8_Witness ==
    \E i \in Calls : fetch_log[i].fetches = 4 /\ fetch_log[i].outcome = "fetched"

\* C9 as stated: the time a call has slept in total is never over
\* max_backoff_time
C9_TotalSleptWithinCeiling ==
    call # None => call[1].slept <= max_backoff_time

\* C9 as amended: no single delay a call sleeps is over max_backoff_time (the
\* total may be), and the call raises at the first delay that is
C9_EachDelayWithinCeiling ==
    /\ call # None =>
          /\ call[1].last_delay <= max_backoff_time
          /\ call[1].slept <= call[1].retries * max_backoff_time
    /\ \A i \in Calls :
          fetch_log[i].delay > max_backoff_time
              => fetch_log[i].outcome = "raised" /\ pc = "raised"

\* a call has slept more than max_backoff_time in total
C9_Witness ==
    call # None /\ call[1].slept > max_backoff_time

\* the network was used for the entry's event id after the call of entry i
FetchedAgainAfter(i) ==
    \/ \E j \in Calls : /\ j > i
                        /\ fetch_log[j].event_id = fetch_log[i].event_id
                        /\ \/ fetch_log[j].outcome # "cache"
                           \/ fetch_log[j].fetches # 0
                           \/ fetch_log[j].result # fetch_log[i].result
    \/ call # None /\ call[1].event_id = fetch_log[i].event_id

\* C10 as stated: after a successful fetch for an event id, every later call
\* with that id returns the same data without a fetch
C10_CachedAfterFetch ==
    \A i \in Calls : fetch_log[i].outcome = "fetched" => ~FetchedAgainAfter(i)

\* C10 as amended: a call whose event id has a cache entry returns the entry
\* without a fetch; after a successful fetch for a non-empty event id, every
\* later call with that id returns the same data without a fetch
C10_CachedAfterFetchOfKey ==
    /\ call # None => call[1].event_id \notin DOMAIN cache
    /\ \A i \in Calls :
          /\ (fetch_log[i].outcome = "fetched" /\ fetch_log[i].event_id # "")
                => ~FetchedAgainAfter(i)
          /\ fetch_log[i].outcome = "cache"
                => fetch_log[i].result = Some(cache[fetch_log[i].event_id])

\* a second call for a fetched event id, with another URL, answered from the cache
C10_Witness ==
    /\ Len(fetch_log) = 2
    /\ fetch_log[1].outcome = "fetched"
    /\ fetch_log[2].outcome = "cache"
    /\ fetch_log[2].url # fetch_log[1].url

-----------------------------------------------------------------------------
(* Properties of parse_hangouts_event.  The parse of Event is in progress   *)
(* at pc = "event" and pc = "urlopen" and has returned at pc = "parsed".    *)

KnownSegmentTypes == {"TEXT", "LINE_BREAK", "LINK"}

KnownSegments(event) ==
    event.segment # None
        /\ \A k \in 1..Len(event.segment[1]) : event.segment[1][k].type \in KnownSegmentTypes

\* what one segment adds to the text
Contribution(segment) ==
    CASE segment.type = "LINE_BREAK" -> <<"\n">>
      [] segment.type = "TEXT"       -> segment.text
      [] segment.type = "LINK"       -> <<" ">> \o segment.text \o <<" ">>

RECURSIVE Body(_)
Body(segments) ==
    IF segments = <<>> THEN <<>>
    ELSE Body(SubSeq(segments, 1, Len(segments) - 1))
             \o Contribution(segments[Len(segments)])

TextParts(parts) == {k \in 1..Len(parts) : parts[k].content_type = "text/plain"}

\* C14: the parse of an event whose segments are all of type TEXT, LINE_BREAK
\* or LINK gives one text part, the first, whose text is the concatenation in
\* order of a newline per LINE_BREAK, the text per TEXT and the text between
\* two spaces per LINK; the segments never make the parse raise
C14_TextIsConcatenation ==
    /\ [](pc = "parsed" /\ KnownSegments(Event)
            => /\ TextParts(TheParts) = {1}
               /\ TheParts[1].text = Body(Event.segment[1]))
    /\ [][(pc = "event" /\ KnownSegments(Event)
             /\ Event.attachment = <<>> /\ Event.annotation = <<>>)
            => pc' = "parsed"]_vars

\* [TEXT a, LINK x] gives "a x "
C14_Witness ==
    /\ pc = "parsed"
    /\ Event.segment = Some(<<TextSegment(<<"a">>), [type |-> "LINK", text |-> <<"x">>]>>)
    /\ TheParts[1].text = <<"a", " ", "x", " ">>

KnownEmbedTypes ==
    {<<"PLUS_PHOTO">>, <<"PLACE_V2", "THING_V2", "THING">>, <<"PLUS_AUDIO_V2">>}

\* a segment of unknown type, an attachment of unknown type, or two attachments
Unrecognized(event) ==
    \/ event.segment # None /\ ~KnownSegments(event)
    \/ Len(event.attachment) > 1
    \/ Len(event.attachment) = 1 /\ event.attachment[1].type \notin KnownEmbedTypes

ParseRaised ==
    /\ pc = "raised"
    /\ conversation_meta # None
    /\ parsed_event = None
    /\ ci <= Len(archive)

\* C15: the parse of an event with a segment of unknown type, with one
\* attachment of unknown type, or with more than one attachment raises and
\* returns no parsed event
C15_UnrecognizedRaises ==
    /\ [](pc = "parsed" => ~Unrecognized(Event))
    /\ [][(pc = "event" /\ Unrecognized(Event))
            => /\ pc' = "raised"
               /\ parsed_event' = None
               /\ error' \in {"ValueError", "NotImplementedError"}]_vars

\* the parse raised on a segment of unknown type that follows a known one
C15_Witness ==
    /\ ParseRaised
    /\ Event.segment # None
    /\ Len(Event.segment[1]) = 2
    /\ Event.segment[1][1].type = "TEXT"
    /\ Event.segment[1][2].type = "MENTION"
    /\ error = "ValueError"

\* the event has no segment list and no attachment that gives a part
NothingToSay(event) ==
    /\ event.segment = None
    /\ \/ event.attachment = <<>>
       \/ event.attachment = <<Place>>
       \/ event.attachment = <<Audio>> /\ event.event_type = "VOICEMAIL"

\* C16: an event without segment list and without attachment that gives a
\* part parses to zero parts; an event of zero parts gives no record and the
\* warning, and the conversation loop goes on to the next event
C16_NoPartsNoRecords ==
    /\ [](pc = "parsed" /\ NothingToSay(Event) => TheParts = <<>>)
    /\ [][(pc = "parsed" /\ TheParts = <<>>)
            => /\ messages' = Some(<<>>)
               /\ conversation_messages' = conversation_messages
               /\ warnings' = Append(warnings, "NO PARTS FOR MESSAGE")
               /\ error' = NoValue
               /\ IF ei < Len(archive[ci].events)
                    THEN pc' = "event" /\ ei' = ei + 1
                    ELSE pc' = "conversation_done"]_vars

\* after a voicemail of zero parts the second event was transformed
C16_Witness ==
    /\ Len(archive[1].events) = 2
    /\ archive[1].events[1].attachment = <<Audio>>
    /\ NothingToSay(archive[1].events[1])
    /\ ei = 2
    /\ Transformed
    /\ Len(conversation_messages) = 1
    /\ warnings = <<"No processing PLUS_AUDIO_V2", "NO PARTS FOR MESSAGE">>

Direction(record) == IF record.tag = "sms" THEN record.type ELSE record.msg_box

\* C17: every record of an event is marked '2' (sent) when the sender of the
\* event is its owner and '1' (received) otherwise
C17_Direction ==
    Transformed =>
        \A k \in 1..Len(TheMessages) :
            Direction(TheMessages[k]) =
                IF parsed_event[1].sender_gaia_id = parsed_event[1].user_gaia_id
                  THEN "2" ELSE "1"

\* the two mms of an event the owner sent
C17_Witness ==
    /\ Transformed
    /\ Len(TheMessages) = 2
    /\ Event.sender_gaia_id = Event.user_gaia_id
    /\ Direction(TheMessages[1]) = "2"
    /\ Direction(TheMessages[2]) = "2"

AnnotationsEmpty(event) ==
    \A k \in 1..Len(event.annotation) : event.annotation[k] = <<>>

\* C20: the parse never returns for an event that has an annotation with a
\* value; for an event with no annotation, or one annotation without value,
\* the parse returns if its segments and attachments let it
C20_Annotations ==
    /\ [](pc = "parsed" => AnnotationsEmpty(Event))
    /\ [][(pc = "event" /\ KnownSegments(Event) /\ Event.attachment = <<>>)
            => IF ~AnnotationsEmpty(Event) THEN pc' = "raised"
               ELSE Len(Event.annotation) <= 1 => pc' = "parsed"]_vars
    /\ [][(pc = "urlopen" /\ fetch_log' # fetch_log
             /\ fetch_log'[Len(fetch_log')].outcome = "fetched")
            => IF ~AnnotationsEmpty(Event) THEN pc' = "raised"
               ELSE Len(Event.annotation) <= 1 => pc' = "parsed"]_vars

\* an event with one annotation without value was parsed, image included
C20_Witness ==
    /\ pc = "parsed"
    /\ Event.annotation = <<<<>>>>
    /\ Len(TheParts) = 2

-----------------------------------------------------------------------------
(* Properties of the run as a whole: transform_hangouts_data and main.      *)

RECURSIVE Flatten(_)
Flatten(lists) ==
    IF lists = <<>> THEN <<>> ELSE Head(lists) \o Flatten(Tail(lists))

IsPhoto(event) ==
    Len(event.attachment) = 1 /\ event.attachment[1].type = <<"PLUS_PHOTO">>

\* the records of one event: those of the transform for its text part and
\* the image of its photo, which is the cache entry of its event id
RecordsOf(conversation, event) ==
    LET parts == SegmentParts(event).value
                     \o (IF IsPhoto(event) THEN <<cache[event.event_id]>> ELSE <<>>)
    IN  transform_parsed_hangouts_event_to_sms_backup_and_restore(
            Parsed(event, parts),
            parsed_hangouts_conversation_meta(conversation).value).value

\* the number of events of a conversation the loop goes through
Processed(conversation) ==
    IF Truthy(message_count) /\ Len(conversation.events) > message_count + 1
      THEN message_count + 1
      ELSE Len(conversation.events)

\* the records of the first n conversations, in the order of the archive
RecordsUpTo(n) ==
    Flatten([i \in 1..n |->
        Flatten([j \in 1..Processed(archive[i]) |->
            RecordsOf(archive[i], archive[i].events[j])])])

\* C11: after an exception the output path holds no document, and it holds
\* a document only once the whole run has ended without exception
C11_NoPartialDocument ==
    /\ pc = "raised" => output.kind # "document" /\ output.messages = <<>>
    /\ output.kind = "document" => pc = "written" /\ error = NoValue

\* a fetch failed after a record of the conversation was made
C11_Witness ==
    /\ pc = "raised"
    /\ error = "HTTPError"
    /\ conversation_messages # <<>>
    /\ output = Placeholder

\* C12: what transform_hangouts_data returns is the records of the events in
\* the order of the conversations, of the events in each, and of the parts
\* of each event, none left out, repeated or moved
C12_RecordsInSourceOrder ==
    /\ pc = "conversation" => root = RecordsUpTo(ci - 1)
    /\ pc = "done" => root = RecordsUpTo(Len(archive))

\* five records of two conversations, the two mms of one event among them
C12_Witness ==
    /\ pc = "done"
    /\ archive = MixedArchive
    /\ Len(root) = 5
    /\ root[2].tag = "mms"
    /\ root[3].tag = "mms"
    /\ root[5].tag = "sms"

\* C18: the count attribute of a document written is the number of its
\* messages, with and without the messages of an existing document
C18_CountIsNumberOfMessages ==
    output.kind = "document" => output.count = Len(output.messages)

\* a document written from converted messages and an existing document whose
\* count attribute was not the number of its messages
C18_Witness ==
    /\ output.kind = "document"
    /\ existing # None
    /\ existing[1].count # Len(existing[1].messages)
    /\ Len(output.messages) > Len(existing[1].messages)

\* C19: with an existing document, the messages written are the converted
\* messages in their order, then the existing messages in theirs, as they were
C19_ExistingAppended ==
    /\ [](pc = "written" /\ existing # None
            => output.messages = RecordsUpTo(Len(archive)) \o existing[1].messages)
    /\ [][(pc = "done" /\ pc' = "written" /\ existing # None)
            => output'.messages = root \o existing[1].messages]_vars

\* two existing messages after two converted ones
C19_Witness ==
    /\ pc = "written"
    /\ existing # None
    /\ Len(existing[1].messages) = 2
    /\ Len(output.messages) = 4
    /\ output.messages[3] = ExistingSms(1)
    /\ output.messages[4] = ExistingSms(2)

\* C13: the second of two runs on the same archive against the same server
\* leaves at the output path what the first left: the same records in the
\* same order with the same attributes and parts, or the placeholder when
\* the runs raise
C13_SecondRunSameOutput ==
    (run = 2 /\ pc \in {"written", "raised"}) => output = first_output[1]

\* the second run took the images of both events from the cache files the
\* first run wrote
C13_Witness ==
    /\ run = 2
    /\ pc = "written"
    /\ Len(fetch_log) = 2
    /\ fetch_log[1].outcome = "cache"
    /\ fetch_log[2].outcome = "cache"
    /\ fetch_log[1].event_id # fetch_log[2].event_id
    /\ Len(output.messages) = 2
    /\ first_output = Some(output)

-----------------------------------------------------------------------------
(* Properties of the resolver.  conversation_meta is the meta of            *)
(* archive[ci] while the conversation's events are gone through.            *)

InConversation == pc \in {"event", "urlopen", "parsed", "conversation_done"}

KnownParticipantTypes ==
    {"GAIA", "OFF_NETWORK_PHONE", "UNKNOWN_PHONE_NUMBER", "MALFORMED_PHONE_NUMBER"}

\* the participants of a conversation, in order, that are neither its owner
\* nor of unknown number
Listed(conversation) ==
    LET Keep(participant) ==
            /\ participant.gaia_id # conversation.conversation.self_gaia_id
            /\ participant.participant_type # "UNKNOWN_PHONE_NUMBER"
    IN  SelectSeq(conversation.conversation.participant_data, Keep)

\* the address by classification, a number being there or not
AddressAsStated(participant) ==
    IF participant.participant_type \in {"GAIA", "OFF_NETWORK_PHONE"}
      THEN participant.e164
      ELSE participant.fallback_name

\* the address by classification and by whether the participant has a number
AddressOf(participant) ==
    IF participant.participant_type \in {"GAIA", "OFF_NETWORK_PHONE"}
      THEN IF participant.has_phone_number THEN participant.e164 ELSE <<>>
      ELSE participant.fallback_name

\* what makes the resolver raise
Unresolvable(conversation) ==
    LET convo == conversation.conversation
        others == {k \in 1..Len(convo.participant_data) :
                      convo.participant_data[k].gaia_id # convo.self_gaia_id}
    IN  \/ convo.type \notin {"STICKY_ONE_TO_ONE", "GROUP"}
        \/ Cardinality(others) = Len(convo.participant_data)
        \/ \E k \in others :
              \/ convo.participant_data[k].participant_type \notin KnownParticipantTypes
              \/ /\ convo.participant_data[k].participant_type = "OFF_NETWORK_PHONE"
                 /\ ~convo.participant_data[k].has_phone_number

\* C21 as stated: the participants of the meta are the conversation's
\* participants other than its owner and those of unknown number, in order,
\* with the e164 number of a GAIA or off-network participant and the
\* fallback name of a malformed-number one
C21_ParticipantsAsStated ==
    InConversation =>
        TheMeta.participants =
            [k \in 1..Len(Listed(archive[ci])) |->
                [gaia_id |-> Listed(archive[ci])[k].gaia_id,
                 phone_number |-> AddressAsStated(Listed(archive[ci])[k])]]

\* C21 as amended: as stated, but a GAIA participant without phone number is
\* listed with the empty address, and an off-network participant without
\* phone number makes the resolver raise as one of another classification
\* does; participants of unknown number raise nothing
C21_ParticipantsByClassification ==
    /\ [](InConversation =>
            TheMeta.participants =
                [k \in 1..Len(Listed(archive[ci])) |->
                    [gaia_id |-> Listed(archive[ci])[k].gaia_id,
                     phone_number |-> AddressOf(Listed(archive[ci])[k])]])
    /\ [][(pc = "conversation" /\ ci <= Len(archive))
            => IF Unresolvable(archive[ci])
                 THEN pc' = "raised" /\ conversation_meta' = conversation_meta
                 ELSE pc' = "event"]_vars

\* a conversation of three, one of them of unknown number, whose meta lists
\* one participant, with the empty address
C21_Witness ==
    /\ InConversation
    /\ Len(archive[ci].conversation.participant_data) = 3
    /\ Len(TheMeta.participants) = 1
    /\ \E k \in 1..3 :
          archive[ci].conversation.participant_data[k].participant_type
              = "UNKNOWN_PHONE_NUMBER"
    /\ TheMeta.participants[1].phone_number = <<>>

-----------------------------------------------------------------------------
(* Properties of the audio attachment.                                      *)

OneAudio(event) == event.attachment = <<Audio>>

\* C22: an event with one audio attachment is parsed only if its type is
\* VOICEMAIL, and then its parts are the parts of its segments, the audio
\* adding none; with any other event type the parse raises, with a
\* ValueError unless the segments raised before
C22_AudioOnlyForVoicemail ==
    /\ []((pc = "parsed" /\ OneAudio(Event))
            => /\ Event.event_type = "VOICEMAIL"
               /\ TheParts = SegmentParts(Event).value)
    /\ [][(pc = "event" /\ OneAudio(Event) /\ Event.event_type # "VOICEMAIL")
            => /\ pc' = "raised"
               /\ parsed_event' = None
               /\ (~SegmentParts(Event).raised => error' = "ValueError")]_vars

\* a voicemail with text and audio, parsed to its one text part
C22_Witness ==
    /\ pc = "parsed"
    /\ OneAudio(Event)
    /\ Event.event_type = "VOICEMAIL"
    /\ Event.segment = Some(<<TextSegment(<<"a">>)>>)
    /\ Len(TheParts) = 1
    /\ TheParts[1].content_type = "text/plain"

-----------------------------------------------------------------------------
(* Properties of retrieve_image_data against a server of fixed behaviour.   *)

\* what the server answers to the fetch the call in progress makes next
NextResponse ==
    IF call[1].retries < server[1][call[1].url].failures
      THEN Response(500, "", "")
      ELSE server[1][call[1].url].response

\* C23: when the server answers a fetch with an HTTP error other than 500
\* and 404, the call raises that error at once: it fetches no more, sleeps
\* no delay, returns no part and writes no cache file, and the run ends
C23_OtherHttpErrorIsFatal ==
    [][(pc = "urlopen" /\ NextResponse.status \notin {200, 500, 404})
        => /\ pc' = "raised"
           /\ error' = "HTTPError"
           /\ call' = None
           /\ parsed_event' = None
           /\ cache' = cache
           /\ fetch_log' = Append(fetch_log,
                              [event_id |-> call[1].event_id, url |-> call[1].url,
                               fetches |-> call[1].retries + 1,
                               response |-> Some(NextResponse), delay |-> 0,
                               outcome |-> "raised", result |-> None])]_vars

\* the run ended on a 503 that came after one 500
C23_Witness ==
    /\ pc = "raised"
    /\ error = "HTTPError"
    /\ fetch_log # <<>>
    /\ Status(fetch_log[Len(fetch_log)]) = 503
    /\ fetch_log[Len(fetch_log)].fetches = 2
    /\ fetch_log[Len(fetch_log)].event_id \notin DOMAIN cache

\* the cache file a successful fetch of the response writes
ImageData(response) ==
    [content_type |-> response.content_type, data |-> B64Encode(response.content)]

ImageTypes == {"image/jpeg", "image/png", "image/gif"}

\* C24: every cache entry holds an image of type image/jpeg, image/png or
\* image/gif; the cache changes only when a fetch is answered with such an
\* image, by the entry written for it: a 404, a response of another content
\* type and every raised failure leave it as it is; an event id that got a
\* 404 has no cache entry, and a call for an id without entry fetches
C24_CacheOnlyFromImageFetch ==
    /\ [](\A event_id \in DOMAIN cache :
            /\ cache[event_id].content_type \in ImageTypes
            /\ \E content \in Contents : cache[event_id].data = B64Encode(content))
    /\ [][cache' # cache
            => /\ pc = "urlopen"
               /\ NextResponse.status = 200
               /\ NextResponse.content_type \in ImageTypes
               /\ pc' # "raised"
               /\ cache' = (call[1].event_id :> ImageData(NextResponse)) @@ cache]_vars
    /\ [](\A i \in Calls :
            (fetch_log[i].response # None /\ Status(fetch_log[i]) = 404)
                => fetch_log[i].event_id \notin DOMAIN cache)
    /\ [][(/\ pc = "event"
           /\ IsPhoto(Event)
           /\ Event.event_id \notin DOMAIN cache)
            => pc' = "urlopen" /\ call'[1].retries = 0]_vars

\* the second run fetched the image of an event again and got the 404 again,
\* after it took the image of the event before from the cache
C24_Witness ==
    /\ run = 2
    /\ Len(fetch_log) = 2
    /\ fetch_log[1].outcome = "cache"
    /\ fetch_log[2].fetches = 1
    /\ Status(fetch_log[2]) = 404
    /\ DOMAIN cache = {fetch_log[1].event_id}

-----------------------------------------------------------------------------
(* Termination of the retry loop.                                           *)

\* the bounds on the fetches of a call: six sleeps at most, seven fetches at
\* most, and seven exactly when every one of them is answered with a 500
RetryBounds ==
    /\ call # None => call[1].retries <= 6
    /\ \A i \in Calls :
          /\ fetch_log[i].fetches <= 7
          /\ (fetch_log[i].response # None /\ Status(fetch_log[i]) = 500)
                => /\ fetch_log[i].fetches = 7
                   /\ fetch_log[i].outcome = "raised"
                   /\ fetch_log[i].delay > max_backoff_time

\* C25 as stated: a call ends; it sleeps six times at most and fetches seven
\* times at most, the seventh 500 being raised; and each delay slept is
\* longer than the one slept before
C25_DelayGrowsWithRetry ==
    /\ []RetryBounds
    /\ [][(pc = "urlopen" /\ pc' = "urlopen" /\ call[1].retries >= 1)
            => call'[1].last_delay > call[1].last_delay]_vars
    /\ (pc = "urlopen") ~> (pc # "urlopen")

\* C25 as amended: a call ends; it sleeps six times at most and fetches
\* seven times at most, the seventh 500 being raised; each delay slept is
\* the square term of its retry number, which grows with it, plus a jitter
\* of a second at most, and the delay itself may be shorter than the one
\* slept before
C25_RetryLoopEnds ==
    /\ []RetryBounds
    /\ [][(pc = "urlopen" /\ pc' = "urlopen")
            => /\ call'[1].retries = call[1].retries + 1
               /\ call'[1].last_delay >= Delay(call'[1].retries, 0)
               /\ call'[1].last_delay <= Delay(call'[1].retries, JitterMax)
               /\ Delay(call'[1].retries, 0) > Delay(call[1].retries, 0)]_vars
    /\ (pc = "urlopen") ~> (pc # "urlopen")

\* the seventh fetch of a call was answered with a 500 as the six before it,
\* and the call raised
C25_Witness ==
    /\ pc = "raised"
    /\ error = "HTTPError"
    /\ fetch_log # <<>>
    /\ Status(fetch_log[Len(fetch_log)]) = 500
    /\ fetch_log[Len(fetch_log)].fetches = 7

-----------------------------------------------------------------------------
(* Properties of the limit of the conversation transform.                   *)

\* the number of events a limit lets through of a conversation of n events:
\* one more than the limit, and all of them without a limit
Limited(n) ==
    IF message_count >= 1 /\ message_count + 1 < n THEN message_count + 1 ELSE n

\* the records of the first n events of the conversation that is transformed
FirstRecords(n) ==
    Flatten([j \in 1..n |-> RecordsOf(archive[ci], archive[ci].events[j])])

-----------------------------------------------------------------------------
(* Properties of the address list, read against the raw conversation.       *)

\* the participant of the raw conversation that is its owner
Owner(conversation) ==
    CHOOSE participant \in {conversation.conversation.participant_data[k] :
                               k \in 1..Len(conversation.conversation.participant_data)} :
        participant.gaia_id = conversation.conversation.self_gaia_id

\* the addr entries of the listed participants for an event of the sender
AddrsFor(conversation, sender_gaia_id) ==
    [k \in 1..Len(Listed(conversation)) |->
        [address |-> AddressOf(Listed(conversation)[k]),
         type |-> IF Listed(conversation)[k].gaia_id = sender_gaia_id
                    THEN "137" ELSE "151"]]

\* the loop over the events of a conversation was just left: messages is
\* what the transform returned for Event under the meta of archive[ci]
LastTransformed ==
    /\ pc = "conversation_done"
    /\ Len(archive[ci].events) >= 1
    /\ messages # None

\* the sender of the event is one of the listed participants
SenderListed ==
    \E k \in 1..Len(Listed(archive[ci])) :
        Listed(archive[ci])[k].gaia_id = Event.sender_gaia_id

\* C27: the address list of every mms has one entry per participant of the
\* raw conversation that is neither its owner nor of unknown number, in
\* their order, From (137) for the sender of the event and To (151) for
\* every other; the owner's address is the address attribute of the mms and
\* in no entry on the owner's account, and an mms whose sender is the owner
\* or a participant of unknown number has no From entry
C27_AddressListOfMms ==
    LastTransformed =>
        \A i \in 1..Len(TheMessages) :
            TheMessages[i].tag = "mms" =>
                /\ TheMessages[i].addrs = AddrsFor(archive[ci], Event.sender_gaia_id)
                /\ TheMessages[i].address = Owner(archive[ci]).fallback_name
                /\ FromCount(TheMessages[i].addrs) = IF SenderListed THEN 1 ELSE 0
                /\ Event.sender_gaia_id = archive[ci].conversation.self_gaia_id
                      => ~SenderListed

\* an mms to two participants that a third, of unknown number, sent
C27_Witness ==
    /\ LastTransformed
    /\ Len(TheMessages) = 1
    /\ TheMessages[1].tag = "mms"
    /\ Len(TheMessages[1].addrs) = 2
    /\ TheMessages[1].addrs[1].address # TheMessages[1].addrs[2].address
    /\ FromCount(TheMessages[1].addrs) = 0
    /\ Event.sender_gaia_id # archive[ci].conversation.self_gaia_id

-----------------------------------------------------------------------------
(* Properties of the number of parts.                                       *)

\* a part retrieve_image_data returned: an image or the diagnostic of a 404
IsRetrieved(part) == HasImage(part.content_type) \/ "error" \in DOMAIN part

\* the text part of the segments: it has a text and no error
IsSegmentText(part) == IsTextPart(part) /\ "error" \notin DOMAIN part

\* C28: a parsed event has one text part if it has a segment list, empty or
\* not, and none otherwise, then one part of its attachment if this is a
\* photo, and none otherwise: two parts at most, the text part first; and
\* the transform returns a record per part at most, so two at most
C28_AtMostTwoParts ==
    /\ pc = "parsed" =>
          LET texts == IF Event.segment # None THEN 1 ELSE 0
              retrieved == IF IsPhoto(Event) THEN 1 ELSE 0
          IN  /\ Len(TheParts) = texts + retrieved
              /\ Len(TheParts) <= 2
              /\ \A k \in 1..Len(TheParts) :
                    IF k <= texts THEN IsSegmentText(TheParts[k])
                                  ELSE IsRetrieved(TheParts[k])
              /\ Event.segment = Some(<<>>) => TheParts[1].text = <<>>
    /\ Transformed => Len(TheMessages) <= Len(TheParts) /\ Len(TheMessages) <= 2

\* an event of an empty segment list and a photo, parsed to a text part of
\* empty body and the image after it
C28_Witness ==
    /\ pc = "parsed"
    /\ Event.segment = Some(<<>>)
    /\ IsPhoto(Event)
    /\ Len(TheParts) = 2
    /\ TheParts[1].text = <<>>
    /\ HasImage(TheParts[2].content_type)

-----------------------------------------------------------------------------
(* Properties of the output path over the run of main.                      *)

HoldsPlaceholder == output.kind = "placeholder" /\ output.messages = <<>>

\* nothing of the archive was gone through yet
NothingProcessed ==
    /\ ci = 1
    /\ conversation_meta = None
    /\ parsed_event = None
    /\ root = <<>>
    /\ fetch_log = <<>>

\* C29: the first step of main writes the placeholder over what the output
\* path held, before anything of the archive is gone through; the path is
\* written once more only, with the document, after the loop over the
\* conversations has ended past the last of them; so from the first step to
\* that write, and for ever after an exception, the path holds the
\* placeholder: not what it held before and no message
C29_PlaceholderUntilWritten ==
    /\ [][pc = "main" => (NothingProcessed /\ HoldsPlaceholder')]_vars
    /\ [][output' # output
            => \/ pc = "main"
               \/ /\ pc = "done"
                  /\ pc' = "written"
                  /\ ci = Len(archive) + 1
                  /\ output'.kind = "document"]_vars
    /\ [](pc \notin {"main", "written"} => HoldsPlaceholder)
    /\ [](pc = "raised" => output # PreviousContent)

\* the read of the existing document raised after every conversation was
\* transformed, and the output path holds the placeholder
C29_Witness ==
    /\ pc = "raised"
    /\ error = "ValueError"
    /\ ci = Len(archive) + 1
    /\ existing # None
    /\ root # <<>>
    /\ HoldsPlaceholder

-----------------------------------------------------------------------------
(* Properties of the writer against the reader.                             *)

\* C30: the run goes past the read of an existing document only if the
\* comment on its second line holds 'File Created By', and a document
\* without it makes the read raise a ValueError; the comment of every
\* document this program writes begins 'File Created For' and does not hold
\* 'File Created By', so the reader raises on it: a document written is not
\* read back
C30_WrittenIsNotReadBack ==
    /\ []((pc = "written" /\ existing # None)
            => IsSubstring(FileCreatedBy, existing[1].info))
    /\ [][(/\ pc = "done"
           /\ existing # None
           /\ existing[1].kind = "document"
           /\ ~IsSubstring(FileCreatedBy, existing[1].info))
            => /\ pc' = "raised"
               /\ error' = "ValueError"
               /\ output' = output]_vars
    /\ [](output.kind = "document"
            => /\ SubSeq(output.info, 1, 3) = <<"File", "Created", "For">>
               /\ ~IsSubstring(FileCreatedBy, output.info)
               /\ read_sms_backup_and_restore(output).raised
               /\ read_sms_backup_and_restore(output).error = "ValueError")

\* the document given as existing is one this program wrote, and its read
\* raised after the messages were converted
C30_Witness ==
    /\ pc = "raised"
    /\ error = "ValueError"
    /\ ci = Len(archive) + 1
    /\ root # <<>>
    /\ existing # None
    /\ existing[1].kind = "document"
    /\ SubSeq(existing[1].info, 1, 3) = <<"File", "Created", "For">>
    /\ existing[1].messages = <<ExistingSms(1)>>

====
